---- MODULE Spec2Model ----
(***************************************************************************)
(* A model of dsync: the sync engine (src/src/repo.rs), the authenticated  *)
(* call executor and the remote backend's path index (src/src/gdrive.rs),  *)
(* and the credential authorizer (src/src/main.rs).                        *)
(*                                                                         *)
(* Seven specifications share the module, each over its own variables:    *)
(*   SpecSync   sync(src, dst), run MaxRuns times in a row                 *)
(*   SpecCall   concurrent logical RequestBuilder::call's on one authorizer*)
(*   SpecToken  concurrent callers of GDriveAuthorizer::token()            *)
(*   SpecDrives two authorizers, one per identity, on one identity store   *)
(*   SpecIndex  GDriveRepo::new building the path index                    *)
(*   SpecRepo   two Repo calls in sequence on GDriveRepo and LocalRepo     *)
(*   SpecCreateDir  two tasks calling GDriveRepo::create_dir concurrently  *)
(***************************************************************************)
EXTENDS Integers, Sequences, FiniteSets, TLC

VARIABLES
    \* ---- sync engine -------------------------------------------------
    srcTree,      \* what src.list(".") returns: a sequence of Entry
    dstTree,      \* what dst.list(".") returns: a sequence of Entry
    dst0,         \* dstTree as it was when the current run started
    sync_pc,      \* position inside sync()
    srcs,         \* local `srcs` (sorted after the listing)
    dsts,         \* local `dsts`: HashMap name -> Entry
    cursor,       \* index of the next entry the `for` loop visits
    srcCalls,     \* Repo calls sync made on src in this run
    dstCalls,     \* Repo calls sync made on dst in this run
    sync_result,  \* "none" | "Ok" | "Err"
    runNo,        \* number of the current consecutive run, 1..MaxRuns
    \* ---- credential authorizer and call executor ----------------------
    now,          \* SystemTime::now()
    store,        \* the identity store: get::<Drives>(DRIVES)
    lock,         \* GDriveAuthorizer.lock of each identity: 0 or its holder
    issued,       \* secrets the token endpoint has issued so far
    refreshCalls, \* refresh network calls issued so far, all callers
    caller,       \* each caller's locals, one record per caller
    \* ---- GDriveRepo::new ----------------------------------------------
    remote,       \* the folder objects the remote holds
    new_pc,       \* position inside GDriveRepo::new
    folders,      \* local `folders.files`
    fpos,         \* index of the next folder the for_each visits
    children,     \* local `children`: parent id -> child ids, in order
    parents,      \* local `parents`: id -> parent id
    names,        \* local `names`: id -> name
    paths,        \* local `paths`: id -> path
    pending,      \* the add_child calls still to run, innermost first
    dirs,         \* GDriveRepo.dirs: path -> id
    \* ---- the Repo operations of GDriveRepo and LocalRepo ----------------
    task,         \* each task's current Repo call and its locals
    created,      \* the folders the remote made on files_create, in order
    copied,       \* the files_copy requests the remote received, in order
    nextId,       \* the identifier the remote gives its next new object
    localFs       \* the tree under LocalRepo.path: path -> kind

syncVars == << srcTree, dstTree, dst0, sync_pc, srcs, dsts, cursor,
               srcCalls, dstCalls, sync_result, runNo >>

authVars == << now, store, lock, issued, refreshCalls, caller >>

indexVars == << remote, new_pc, folders, fpos, children, parents, names,
                paths, pending, dirs >>

repoVars == << task, created, copied, nextId, localFs >>

vars == << syncVars, authVars, indexVars, repoVars >>

(***************************************************************************)
(* Bounds                                                                  *)
(***************************************************************************)
MaxRuns == 2

\* concurrent callers of one authorizer
NumCallers == 2

\* the clock runs from 0 to MaxTime
MaxTime == 2

\* expires_in of a refreshed credential, in clock ticks
TokenLifetime == 1

\* consecutive logical calls of one caller
MaxCalls == 2

\* folder objects on the remote
MaxFolders == 3

\* objects a listed remote directory holds, at most
MaxEntries == 3

\* objects the remote puts on one page of a listing, at most
PageSize == 2

(***************************************************************************)
(* main.rs: the identity store, DriveInfo, GDriveAuthorizer                *)
(***************************************************************************)
Identities == {"d1", "d2"}

Callers == 1..NumCallers

\* struct DriveInfo
DriveInfo(t, until, r, sc) ==
    [access_token |-> t, access_until |-> until, refresh_token |-> r,
     scopes |-> sc]

\* The store before any refresh: each identity holds secret 0 of its own.
InitialDrive(d, until) == DriveInfo(<<d, 0>>, until, <<d, "refresh">>, "drive")

\* a caller's locals: those of RequestBuilder::call, of token() and of
\* force_refresh(), and what the caller has done so far in this logical call
FreshCaller(name, mode, pc) ==
    [name |-> name,              \* GDriveAuthorizer.name of its authorizer
     mode |-> mode,              \* "call": RequestBuilder::call; "token": token()
     pc |-> pc,
     force_refreshed |-> FALSE,  \* call's `force_refreshed`
     token |-> <<"none", 0>>,    \* call's `token`
     ret |-> "none",             \* who awaits force_refresh: "token" | "unauth"
     drives |-> << >>,           \* force_refresh's `drives`
     sent |-> << >>,             \* the secret each request sent carried
     resps |-> << >>,            \* the response to each request
     nrefresh |-> 0,             \* refresh network calls of this logical call
     nforced |-> 0,              \* force_refresh calls from the 401 arm
     sawAt |-> -1,               \* refreshCalls when token() saw the expiry
     result |-> "none",          \* "none" | "Ok" | "Err"
     callNo |-> 1]

\* The authorizer part at rest, for the specifications that do not run it.
AuthIdle ==
    /\ now = 0
    /\ store = [d \in Identities |-> InitialDrive(d, 0)]
    /\ lock = [d \in Identities |-> 0]
    /\ issued = 0
    /\ refreshCalls = 0
    /\ caller = [p \in Callers |-> FreshCaller("d1", "off", "off")]


\* The sync engine at rest, for the specifications that do not run it.
SyncIdle ==
    /\ srcTree = << >>
    /\ dstTree = << >>
    /\ dst0 = << >>
    /\ sync_pc = "off"
    /\ srcs = << >>
    /\ dsts = << >>
    /\ cursor = 1
    /\ srcCalls = << >>
    /\ dstCalls = << >>
    /\ sync_result = "none"
    /\ runNo = 1

\* GDriveRepo::new at rest, for the specifications that do not run it.
IndexIdle ==
    /\ remote = << >>
    /\ new_pc = "off"
    /\ folders = << >>
    /\ fpos = 1
    /\ children = << >>
    /\ parents = << >>
    /\ names = << >>
    /\ paths = << >>
    /\ pending = << >>
    /\ dirs = << >>

\* The tasks that call into a Repo.
Tasks == {"t1", "t2"}

\* A path handed to a Repo call: absolute or relative, and its components
ArgPath(abs, comps) == [abs |-> abs, comps |-> comps]

\* A task that has made no Repo call yet; mode says which calls it makes
FreshTask(mode) ==
    [mode    |-> mode,          \* "off" | "remote" | "local" | "create"
     callNo  |-> "none",        \* "none" | "first" | "second"
     op      |-> "none",        \* the Repo method being run
     path    |-> ArgPath(TRUE, << >>),   \* its `path` / `source`
     dest    |-> ArgPath(TRUE, << >>),   \* its `dest`
     pc      |-> "idle",        \* position inside the method
     stack   |-> << >>,         \* create_dir: `path` of each open frame
     resp    |-> "none",        \* outcome of the call being awaited
     newId   |-> 0,             \* file.id of the files_create response
     found   |-> 0,             \* copy_file: files.files.len()
     full    |-> << >>,         \* list: what the remote holds in the dir
     page_token |-> 0,          \* list: local `page_token`, 0 for None
     files   |-> << >>,         \* list: local `files`
     failed  |-> FALSE,         \* list: a page request was not answered 2xx
     nreq    |-> 0,             \* requests this call has sent
     result  |-> "none",        \* "none" | "Ok" | "Err" | "Panic"
     dirs0   |-> << >>,         \* dirs when the call began
     fs0     |-> << >>,         \* localFs when the call began
     last    |-> [op |-> "none", path |-> ArgPath(TRUE, << >>),
                  result |-> "none", nreq |-> 0]]   \* the call before

\* The Repo backends at rest, for the specifications that do not call them.
RepoIdle ==
    /\ task = [t \in Tasks |-> FreshTask("off")]
    /\ created = << >>
    /\ copied = << >>
    /\ nextId = 0
    /\ localFs = << >>

(***************************************************************************)
(* repo.rs: Entry, Dir, File                                               *)
(***************************************************************************)
Names == {"a", "b"}

\* str::cmp on the names used here
NameRank == [n \in Names |-> IF n = "a" THEN 1 ELSE 2]

Hashes == {1, 2}

Sizes == {1, 2}

\* Entry::File(File { name, shasum, size })
FileEntry(n, h, s) == [kind |-> "File", name |-> n, shasum |-> h, size |-> s]

\* Entry::Dir(Dir { name }) (a Dir carries no shasum and no size: 0 here)
DirEntry(n) == [kind |-> "Dir", name |-> n, shasum |-> 0, size |-> 0]

Entry == {FileEntry(n, h, s) : n \in Names, h \in Hashes, s \in Sizes}
            \cup {DirEntry(n) : n \in Names}

\* Entry::name
EntryName(e) == e.name

\* A directory listing: entries in the backend's order, one per name.
Listings ==
    {<< >>} \cup {<<e>> : e \in Entry}
            \cup {p \in Entry \X Entry : p[1].name # p[2].name}

Range(s) == {s[i] : i \in DOMAIN s}

\* The entry named n of a listing, or "none"
Lookup(tree, n) ==
    IF \E i \in DOMAIN tree : tree[i].name = n
    THEN tree[CHOOSE i \in DOMAIN tree : tree[i].name = n]
    ELSE [kind |-> "none", name |-> n, shasum |-> 0, size |-> 0]

(***************************************************************************)
(* The Repo trait's mutating operations, as sync would invoke them on a    *)
(* backend's listing.                                                      *)
(***************************************************************************)
RemoveName(tree, n) == SelectSeq(tree, LAMBDA e : e.name # n)

\* Repo::create_dir
RepoCreateDir(tree, n) ==
    IF \E i \in DOMAIN tree : tree[i].name = n THEN tree
    ELSE Append(tree, DirEntry(n))

\* Repo::write_file: overwrite the object of that name
RepoWriteFile(tree, n, h, s) == Append(RemoveName(tree, n), FileEntry(n, h, s))

\* Repo::delete
RepoDelete(tree, n) == RemoveName(tree, n)

Call(op, n, h, s) == [op |-> op, name |-> n, shasum |-> h, size |-> s]

RepoApply(tree, c) ==
    CASE c.op = "create_dir" -> RepoCreateDir(tree, c.name)
      [] c.op = "write_file" -> RepoWriteFile(tree, c.name, c.shasum, c.size)
      [] c.op = "copy_file"  -> RepoWriteFile(tree, c.name, c.shasum, c.size)
      [] c.op = "delete"     -> RepoDelete(tree, c.name)
      [] OTHER               -> tree

RECURSIVE RepoApplyAll(_, _)
RepoApplyAll(tree, cs) ==
    IF cs = << >> THEN tree
    ELSE RepoApplyAll(RepoApply(tree, Head(cs)), Tail(cs))

(***************************************************************************)
(* repo.rs: sync                                                           *)
(***************************************************************************)
\* srcs.sort_by(|v1, v2| v1.name().cmp(v2.name())): a stable insertion sort
RECURSIVE InsertByName(_, _)
InsertByName(sorted, e) ==
    IF sorted = << >> THEN <<e>>
    ELSE IF NameRank[EntryName(e)] < NameRank[EntryName(Head(sorted))]
         THEN <<e>> \o sorted
         ELSE <<Head(sorted)>> \o InsertByName(Tail(sorted), e)

RECURSIVE SortByName(_)
SortByName(s) ==
    IF s = << >> THEN << >>
    ELSE InsertByName(SortByName(SubSeq(s, 1, Len(s) - 1)), s[Len(s)])

\* dsts.iter().map(|d| (d.name(), d)).collect(): a later entry of the same
\* name replaces an earlier one
IndexByName(tree) ==
    [n \in {tree[i].name : i \in DOMAIN tree} |->
        tree[CHOOSE i \in DOMAIN tree :
                /\ tree[i].name = n
                /\ \A j \in DOMAIN tree : tree[j].name = n => j <= i]]

\* A loop body that transfers every source file, whether or not the hashes
\* are equal (the `continue` is missing).
LoopBodyNoSkip(entry, dmap) ==
    IF entry.kind = "Dir" THEN << >>
    ELSE << Call("write_file", entry.name, entry.shasum, entry.size) >>

\* A loop body that skips a file only when hash and size are both equal, and
\* writes it otherwise.
LoopBodySizeToo(entry, dmap) ==
    IF entry.kind = "Dir" THEN << >>
    ELSE IF /\ entry.name \in DOMAIN dmap
            /\ dmap[entry.name].kind = "File"
            /\ entry.shasum = dmap[entry.name].shasum
            /\ entry.size = dmap[entry.name].size
         THEN << >>
         ELSE << Call("write_file", entry.name, entry.shasum, entry.size) >>

\* A loop body that resolves a type conflict by deleting the destination
\* entry and writing the source file in its place.
LoopBodyReplace(entry, dmap) ==
    IF entry.kind = "File" /\ entry.name \in DOMAIN dmap
                           /\ dmap[entry.name].kind # "File"
    THEN << Call("delete", entry.name, 0, 0),
            Call("write_file", entry.name, entry.shasum, entry.size) >>
    ELSE << >>

\* The body of `for entry in srcs` (repo.rs 124-139): the Repo calls it makes
\* on dst for one source entry. Every arm of the match is empty.
LoopBody(entry, dmap) ==
    IF entry.kind = "Dir"
    THEN << >>                                     \* Entry::Dir(..) => {}
    ELSE IF entry.name \in DOMAIN dmap
         THEN IF dmap[entry.name].kind = "File"
              THEN IF entry.shasum = dmap[entry.name].shasum
                   THEN << >>                      \* continue
                   ELSE << >>                      \* falls out of the match
              ELSE << >>                           \* _ => {}
         ELSE << >>                                \* None => {}

SyncInit ==
    /\ AuthIdle
    /\ IndexIdle
    /\ RepoIdle
    /\ srcTree \in Listings
    /\ dstTree \in Listings
    /\ dst0 = dstTree
    /\ sync_pc = "list_src"
    /\ srcs = << >>
    /\ dsts = << >>
    /\ cursor = 1
    /\ srcCalls = << >>
    /\ dstCalls = << >>
    /\ sync_result = "none"
    /\ runNo = 1

\* A source listing whose failure is taken for an empty directory.
SyncListSrcIgnoringError ==
    /\ sync_pc = "list_src"
    /\ srcCalls' = Append(srcCalls, Call("list", ".", 0, 0))
    /\ \E ok \in BOOLEAN :
         /\ srcs' = IF ok THEN srcTree ELSE << >>
         /\ sync_pc' = "list_dst"
         /\ sync_result' = sync_result
    /\ UNCHANGED << srcTree, dstTree, dst0, dsts, cursor, dstCalls, runNo >>
    /\ UNCHANGED << authVars, indexVars, repoVars >>

\* let mut srcs = src.list(root.clone()).await?;
SyncListSrc ==
    /\ sync_pc = "list_src"
    /\ srcCalls' = Append(srcCalls, Call("list", ".", 0, 0))
    /\ \E ok \in BOOLEAN :
         IF ok
         THEN /\ srcs' = srcTree
              /\ sync_pc' = "list_dst"
              /\ sync_result' = sync_result
         ELSE /\ srcs' = srcs
              /\ sync_pc' = "done"
              /\ sync_result' = "Err"
    /\ UNCHANGED << srcTree, dstTree, dst0, dsts, cursor, dstCalls, runNo >>
    /\ UNCHANGED << authVars, indexVars, repoVars >>

\* let mut dsts = dst.list(root.clone()).await?; then the sort and the index
SyncListDst ==
    /\ sync_pc = "list_dst"
    /\ dstCalls' = Append(dstCalls, Call("list", ".", 0, 0))
    /\ \E ok \in BOOLEAN :
         IF ok
         THEN /\ srcs' = SortByName(srcs)
              /\ dsts' = IndexByName(dstTree)
              /\ cursor' = 1
              /\ sync_pc' = "loop"
              /\ sync_result' = sync_result
         ELSE /\ UNCHANGED << srcs, dsts, cursor >>
              /\ sync_pc' = "done"
              /\ sync_result' = "Err"
    /\ UNCHANGED << srcTree, dstTree, dst0, srcCalls, runNo >>
    /\ UNCHANGED << authVars, indexVars, repoVars >>

\* one iteration of `for entry in srcs`
SyncLoop ==
    /\ sync_pc = "loop"
    /\ cursor <= Len(srcs)
    /\ LET cs == LoopBody(srcs[cursor], dsts) IN
         /\ dstCalls' = dstCalls \o cs
         /\ dstTree' = RepoApplyAll(dstTree, cs)
    /\ cursor' = cursor + 1
    /\ UNCHANGED << srcTree, dst0, sync_pc, srcs, dsts, srcCalls, sync_result,
                    runNo >>
    /\ UNCHANGED << authVars, indexVars, repoVars >>

\* Ok(())
SyncReturn ==
    /\ sync_pc = "loop"
    /\ cursor > Len(srcs)
    /\ sync_pc' = "done"
    /\ sync_result' = "Ok"
    /\ UNCHANGED << srcTree, dstTree, dst0, srcs, dsts, cursor, srcCalls,
                    dstCalls, runNo >>
    /\ UNCHANGED << authVars, indexVars, repoVars >>

\* sync is invoked again on the same pair of backends, the source unchanged
SyncAgain ==
    /\ sync_pc = "done"
    /\ runNo < MaxRuns
    /\ runNo' = runNo + 1
    /\ dst0' = dstTree
    /\ sync_pc' = "list_src"
    /\ srcs' = << >>
    /\ dsts' = << >>
    /\ cursor' = 1
    /\ srcCalls' = << >>
    /\ dstCalls' = << >>
    /\ sync_result' = "none"
    /\ UNCHANGED << srcTree, dstTree >>
    /\ UNCHANGED << authVars, indexVars, repoVars >>

SyncNext ==
    \/ SyncListSrc
    \/ SyncListDst
    \/ SyncLoop
    \/ SyncReturn
    \/ SyncAgain

SpecSync == SyncInit /\ [][SyncNext]_vars

(***************************************************************************)
(* main.rs: token, force_refresh; gdrive.rs: RequestBuilder::call          *)
(***************************************************************************)
\* An expiry test that still accepts the credential at the instant it expires.
NotExpiredInclusive(drive, t) == drive.access_until >= t

\* drive.access_until > SystemTime::now()   (main.rs 139)
NotExpired(drive, t) == drive.access_until > t

\* auth::refresh: valid_until = SystemTime::now().add(expires_in)
ValidUntil(t) == t + TokenLifetime

\* StatusCode::OK
StatusOK == "200"

\* StatusCode::UNAUTHORIZED
StatusUnauthorized == "401"

\* any status that is neither 2xx nor 401
StatusServerError == "500"

\* what `request.send().await` yields: a status, or a transport failure
Responses == {StatusOK, StatusUnauthorized, StatusServerError, "io"}

\* The branch taken on a response that ignores whether a refresh was already
\* forced: every 401 forces a refresh and a retry.
DecideRetryEvery401(status, fr) ==
    IF status = StatusUnauthorized THEN "refresh" ELSE "return"

\* gdrive.rs 177-184: the branch call takes on a response
Decide(status, fr) ==
    IF status = StatusUnauthorized /\ ~fr THEN "refresh"
    ELSE IF fr THEN "bail"
    ELSE "return"

\* A forced refresh after which the flag is left as it was.
AfterForcedRefreshNoFlag(c, t) == [c EXCEPT !.token = t, !.pc = "token"]

\* A forced refresh whose result is not assigned.
AfterForcedRefreshDropsToken(c, t) ==
    [c EXCEPT !.force_refreshed = TRUE, !.pc = "token"]

\* A forced refresh after which the request is sent again as it was built.
AfterForcedRefreshResends(c, t) ==
    [c EXCEPT !.force_refreshed = TRUE, !.pc = "send"]

\* gdrive.rs 178-179: token = auth.force_refresh(client).await?;
\* force_refreshed = true; and the loop starts over
AfterForcedRefresh(c, t) ==
    [c EXCEPT !.token = t, !.force_refreshed = TRUE, !.pc = "token"]

\* A call that ends: its result, and its position
Finish(c, res) == [c EXCEPT !.pc = "done", !.result = res]

\* A token() that hands back the secret the caller held before.
TokenReturnsStale(c, t) ==
    IF c.mode = "token"
    THEN Finish(c, "Ok")
    ELSE [c EXCEPT !.pc = "send"]

\* token() handing a secret back to whoever called it
TokenReturns(c, t) ==
    IF c.mode = "token"
    THEN Finish([c EXCEPT !.token = t], "Ok")
    ELSE [c EXCEPT !.token = t, !.pc = "send"]

\* GDriveAuthorizer::token (main.rs 133-146)
TokenRead(p) ==
    /\ caller[p].pc = "token"
    /\ LET c == caller[p]
           drive == store[c.name]
       IN  caller' = [caller EXCEPT ![p] =
               IF NotExpired(drive, now)
               THEN TokenReturns(c, drive.access_token)
               ELSE [c EXCEPT !.pc = "lock", !.ret = "token",
                              !.sawAt = IF c.sawAt = -1 THEN refreshCalls
                                        ELSE c.sawAt]]
    /\ UNCHANGED << now, store, lock, issued, refreshCalls >>
    /\ UNCHANGED << syncVars, indexVars, repoVars >>

\* A force_refresh that does not wait for the lock.
ForceRefreshWithoutLock(p) ==
    /\ caller[p].pc = "lock"
    /\ lock' = [lock EXCEPT ![caller[p].name] = p]
    /\ refreshCalls' = refreshCalls + 1
    /\ caller' = [caller EXCEPT ![p] =
          [@ EXCEPT !.pc = "refresh", !.drives = store,
                    !.nrefresh = @ + 1]]
    /\ UNCHANGED << now, store, issued >>
    /\ UNCHANGED << syncVars, indexVars, repoVars >>

\* force_refresh up to the refresh request (main.rs 114-120): the lock is
\* taken, the store is read and the request goes out
ForceRefreshLock(p) ==
    /\ caller[p].pc = "lock"
    /\ lock[caller[p].name] = 0
    /\ lock' = [lock EXCEPT ![caller[p].name] = p]
    /\ refreshCalls' = refreshCalls + 1
    /\ caller' = [caller EXCEPT ![p] =
          [@ EXCEPT !.pc = "refresh", !.drives = store,
                    !.nrefresh = @ + 1]]
    /\ UNCHANGED << now, store, issued >>
    /\ UNCHANGED << syncVars, indexVars, repoVars >>

\* A guard that stays locked when the refresh has failed.
ReleasedOnSuccessOnly(l, n, ok) == IF ok THEN [l EXCEPT ![n] = 0] ELSE l

\* the guard `lock` of force_refresh goes: drop(lock) at main.rs 127 when
\* the refresh succeeded, the drop at the early return of `?` at line 120
\* when it failed
Released(l, n, ok) == [l EXCEPT ![n] = 0]

\* A failed refresh after which force_refresh is entered again.
RefreshFailedRetries(c) == [c EXCEPT !.drives = << >>, !.pc = "lock"]

\* crate::auth::refresh(..).await? failed (main.rs 120): the error goes up
\* through force_refresh, token and call, each with `?`
RefreshFailed(c) == Finish([c EXCEPT !.drives = << >>], "Err")

\* force_refresh from the refresh response on (main.rs 120-129)
ForceRefreshResponse(p) ==
    /\ caller[p].pc = "refresh"
    /\ \E ok \in BOOLEAN :
         LET c == caller[p]
             t == <<c.name, issued + 1>>
             drives == [c.drives EXCEPT ![c.name] =
                          [@ EXCEPT !.access_token = t,
                                    !.access_until = ValidUntil(now)]]
         IN  /\ lock' = Released(lock, c.name, ok)
             /\ IF ok
                THEN /\ issued' = issued + 1
                     /\ store' = drives                 \* set(DRIVES, &drives)
                     /\ caller' = [caller EXCEPT ![p] =
                           IF c.ret = "token"
                           THEN TokenReturns([c EXCEPT !.drives = << >>], t)
                           ELSE AfterForcedRefresh([c EXCEPT !.drives = << >>], t)]
                ELSE /\ UNCHANGED << issued, store >>
                     /\ caller' = [caller EXCEPT ![p] = RefreshFailed(c)]
    /\ UNCHANGED << now, refreshCalls >>
    /\ UNCHANGED << syncVars, indexVars, repoVars >>

\* call: the request is built with the secret and sent (gdrive.rs 158-172)
CallSend(p) ==
    /\ caller[p].pc = "send"
    /\ caller' = [caller EXCEPT ![p] =
          [@ EXCEPT !.pc = "await", !.sent = Append(@, caller[p].token)]]
    /\ UNCHANGED << now, store, lock, issued, refreshCalls >>
    /\ UNCHANGED << syncVars, indexVars, repoVars >>

\* call: the response arrives and is acted on (gdrive.rs 171-184)
CallResponse(p) ==
    /\ caller[p].pc = "await"
    /\ \E r \in Responses :
         LET c == [caller[p] EXCEPT !.resps = Append(@, r)] IN
         IF r = "io"
         THEN caller' = [caller EXCEPT ![p] = Finish(c, "Err")]
         ELSE CASE Decide(r, c.force_refreshed) = "refresh" ->
                     caller' = [caller EXCEPT ![p] =
                        [c EXCEPT !.pc = "lock", !.ret = "unauth",
                                  !.nforced = @ + 1]]
                [] Decide(r, c.force_refreshed) = "bail" ->
                     caller' = [caller EXCEPT ![p] = Finish(c, "Err")]
                [] OTHER ->
                     \* return Ok(response.json().await?): the body of a
                     \* 2xx response parses; another body may or may not
                     \E parsed \in (IF r = StatusOK THEN {TRUE} ELSE BOOLEAN) :
                        caller' = [caller EXCEPT ![p] =
                           Finish(c, IF parsed THEN "Ok" ELSE "Err")]
    /\ UNCHANGED << now, store, lock, issued, refreshCalls >>
    /\ UNCHANGED << syncVars, indexVars, repoVars >>

\* the caller starts its next logical call
CallAgain(p) ==
    /\ caller[p].pc = "done"
    /\ caller[p].mode = "call"
    /\ caller[p].callNo < MaxCalls
    /\ caller' = [caller EXCEPT ![p] =
          [FreshCaller(@.name, "call", "token") EXCEPT
              !.callNo = caller[p].callNo + 1]]
    /\ UNCHANGED << now, store, lock, issued, refreshCalls >>
    /\ UNCHANGED << syncVars, indexVars, repoVars >>

\* time passes
Tick ==
    /\ now < MaxTime
    /\ now' = now + 1
    /\ UNCHANGED << store, lock, issued, refreshCalls, caller >>
    /\ UNCHANGED << syncVars, indexVars, repoVars >>

\* One caller runs logical calls, one after the other, as sync does.
CallInit ==
    /\ SyncIdle
    /\ IndexIdle
    /\ RepoIdle
    /\ now = 0
    /\ \E until \in 0..MaxTime :
         store = [d \in Identities |->
                    InitialDrive(d, IF d = "d1" THEN until ELSE 0)]
    /\ lock = [d \in Identities |-> 0]
    /\ issued = 0
    /\ refreshCalls = 0
    /\ caller = [p \in Callers |->
                    IF p = 1 THEN FreshCaller("d1", "call", "token")
                    ELSE FreshCaller("d1", "off", "off")]

CallNext ==
    \/ \E p \in Callers : TokenRead(p)
    \/ \E p \in Callers : ForceRefreshLock(p)
    \/ \E p \in Callers : ForceRefreshResponse(p)
    \/ \E p \in Callers : CallSend(p)
    \/ \E p \in Callers : CallResponse(p)
    \/ \E p \in Callers : CallAgain(p)
    \/ Tick

SpecCall == CallInit /\ [][CallNext]_vars

\* NumCallers tasks call token() on one authorizer at the same time.
TokenInit ==
    /\ SyncIdle
    /\ IndexIdle
    /\ RepoIdle
    /\ now = 0
    /\ \E until \in 0..MaxTime :
         store = [d \in Identities |->
                    InitialDrive(d, IF d = "d1" THEN until ELSE 0)]
    /\ lock = [d \in Identities |-> 0]
    /\ issued = 0
    /\ refreshCalls = 0
    /\ caller = [p \in Callers |-> FreshCaller("d1", "token", "token")]

TokenNext ==
    \/ \E p \in Callers : TokenRead(p)
    \/ \E p \in Callers : ForceRefreshLock(p)
    \/ \E p \in Callers : ForceRefreshResponse(p)
    \/ Tick

SpecToken == TokenInit /\ [][TokenNext]_vars

\* Two authorizers, one for each identity of the store, each with a lock of
\* its own, are asked for their token at the same time.
DrivesInit ==
    /\ SyncIdle
    /\ IndexIdle
    /\ RepoIdle
    /\ now = 0
    /\ \E u1 \in 0..MaxTime : \E u2 \in 0..MaxTime :
         store = [d \in Identities |->
                    InitialDrive(d, IF d = "d1" THEN u1 ELSE u2)]
    /\ lock = [d \in Identities |-> 0]
    /\ issued = 0
    /\ refreshCalls = 0
    /\ caller = [p \in Callers |->
                    IF p = 1 THEN FreshCaller("d1", "token", "token")
                    ELSE IF p = 2 THEN FreshCaller("d2", "token", "token")
                    ELSE FreshCaller("d1", "off", "off")]

SpecDrives == DrivesInit /\ [][TokenNext]_vars

(***************************************************************************)
(* gdrive.rs: GDriveRepo::new                                              *)
(***************************************************************************)
\* root.id of files_get("root")
RootId == 0

\* an identifier that no object of the listing and not the root has
OrphanId == -1

\* the parent of a folder whose `parents` is empty, as it is for a folder
\* that is shared with the user and lies in no folder of theirs
NoParent == -2

FolderNames == {"a", "b"}

\* File { id, name, parents: vec![parent] } of a folder
Folder(id, name, parent) == [id |-> id, name |-> name, parent |-> parent]

\* The folder listings of n objects, ids 1..n, each with any name and with
\* the root, an object of the listing, a missing object or nothing as its
\* parent.
FolderListings(n) ==
    [1..n -> FolderNames \X ({RootId, OrphanId, NoParent} \cup (1..n))]

AsFolders(l) == [i \in DOMAIN l |-> Folder(i, l[i][1], l[i][2])]

\* PathBuf::join of a name that is one normal component; "/" is << >>
PathJoin(par, name) == Append(par, name)

\* HashMap::get(..).is_some()
Has(m, k) == k \in DOMAIN m

\* An insert that forgets every other key.
InsertForgetting(m, k, v) == [x \in {k} |-> v]

\* HashMap::insert
Insert(m, k, v) == [x \in DOMAIN m \cup {k} |-> IF x = k THEN v ELSE m[x]]

\* an empty HashMap
EmptyMap == [x \in {} |-> 0]

\* the add_child(cld, id, ..) calls for the children of id, in order
ChildCalls(ch, id) ==
    IF Has(ch, id) THEN [i \in DOMAIN ch[id] |-> <<ch[id][i], id>>]
    ELSE << >>

\* paths.into_iter().map(|(id, path)| (path, id)).collect(): of the ids that
\* share a path, the one the iteration yields last stays; the iteration
\* order of a HashMap is arbitrary
Collected(ps) ==
    {f \in [{ps[i] : i \in DOMAIN ps} -> DOMAIN ps] :
        \A q \in DOMAIN f : ps[f[q]] = q}

IndexInit ==
    /\ SyncIdle
    /\ AuthIdle
    /\ RepoIdle
    /\ \E n \in 0..MaxFolders : \E l \in FolderListings(n) :
          remote = AsFolders(l)
    /\ new_pc = "fetch"
    /\ folders = << >>
    /\ fpos = 1
    /\ children = EmptyMap
    /\ parents = EmptyMap
    /\ names = EmptyMap
    /\ paths = EmptyMap
    /\ pending = << >>
    /\ dirs = EmptyMap

\* FileList.files of the one files_list call new makes (gdrive.rs 327-332):
\* the first page, of at most k objects; no page_token is ever passed and
\* next_page_token is not read
FirstPage(all, k) == SubSeq(all, 1, IF k < Len(all) THEN k ELSE Len(all))

\* the two calls of new (gdrive.rs 319-332): the root object, the folders;
\* the server puts at most k objects on a page
NewFetch ==
    /\ new_pc = "fetch"
    /\ \E ok \in BOOLEAN :
         IF ok THEN /\ \E k \in 1..MaxFolders : folders' = FirstPage(remote, k)
                    /\ new_pc' = "maps"
         ELSE /\ folders' = folders
              /\ new_pc' = "failed"
    /\ UNCHANGED << remote, fpos, children, parents, names, paths, pending,
                    dirs >>
    /\ UNCHANGED << syncVars, authVars, repoVars >>

\* one turn of folders.files.iter().for_each (gdrive.rs 338-350);
\* file.parents.first().unwrap() panics on a folder without parents
NewMapEntry ==
    /\ new_pc = "maps"
    /\ fpos <= Len(folders)
    /\ LET file == folders[fpos]
           par == file.parent
           chl == file.id
       IN  IF par = NoParent
           THEN /\ new_pc' = "panicked"
                /\ UNCHANGED << children, parents, names, fpos >>
           ELSE /\ children' = Insert(children, par,
                      Append(IF Has(children, par) THEN children[par] ELSE << >>,
                             chl))
                /\ parents' = Insert(parents, chl, par)
                /\ names' = Insert(names, file.id, file.name)
                /\ fpos' = fpos + 1
                /\ new_pc' = new_pc
    /\ UNCHANGED << remote, folders, paths, pending, dirs >>
    /\ UNCHANGED << syncVars, authVars, repoVars >>

\* A seeding that also places every folder whose parent is not in the
\* listing directly below the root.
NewSeedOrphansToo ==
    /\ new_pc = "maps"
    /\ fpos > Len(folders)
    /\ paths' = [id \in {RootId} \cup
                        {i \in DOMAIN names : ~Has(names, parents[i])
                                               /\ parents[i] # RootId} |->
                    IF id = RootId THEN << >> ELSE PathJoin(<< >>, names[id])]
    /\ pending' = ChildCalls(children, RootId)
    /\ new_pc' = "walk"
    /\ UNCHANGED << remote, folders, fpos, children, parents, names, dirs >>
    /\ UNCHANGED << syncVars, authVars, repoVars >>

\* paths.insert(&root_id, "/") and the loop over the root's children
\* (gdrive.rs 352-354, 376-380)
NewSeed ==
    /\ new_pc = "maps"
    /\ fpos > Len(folders)
    /\ paths' = Insert(EmptyMap, RootId, << >>)
    /\ pending' = ChildCalls(children, RootId)
    /\ new_pc' = "walk"
    /\ UNCHANGED << remote, folders, fpos, children, parents, names, dirs >>
    /\ UNCHANGED << syncVars, authVars, repoVars >>

\* one call of add_child (gdrive.rs 356-375)
NewAddChild ==
    /\ new_pc = "walk"
    /\ pending # << >>
    /\ LET id == Head(pending)[1]
           parent == Head(pending)[2]
       IN  IF Has(paths, id)
           THEN /\ paths' = paths
                /\ pending' = Tail(pending)
           ELSE /\ paths' = Insert(paths, id, PathJoin(paths[parent], names[id]))
                /\ pending' = ChildCalls(children, id) \o Tail(pending)
    /\ UNCHANGED << remote, new_pc, folders, fpos, children, parents, names,
                    dirs >>
    /\ UNCHANGED << syncVars, authVars, repoVars >>

\* the index is collected and the repo returned (gdrive.rs 381-392)
NewCollect ==
    /\ new_pc = "walk"
    /\ pending = << >>
    /\ dirs' \in Collected(paths)
    /\ new_pc' = "done"
    /\ UNCHANGED << remote, folders, fpos, children, parents, names, paths,
                    pending >>
    /\ UNCHANGED << syncVars, authVars, repoVars >>

IndexNext ==
    \/ NewFetch
    \/ NewMapEntry
    \/ NewSeed
    \/ NewAddChild
    \/ NewCollect

SpecIndex == IndexInit /\ [][IndexNext]_vars

(***************************************************************************)
(* gdrive.rs, repo.rs: the Repo operations of GDriveRepo and LocalRepo     *)
(***************************************************************************)
\* the directory paths used here: "/", "/a", "/a/b", ... as components
DirPaths ==
    {<< >>} \cup {<<n>> : n \in Names} \cup {<<n, m>> : n \in Names, m \in Names}

\* the PathBuf arguments handed to the Repo calls
ArgPaths == {ArgPath(abs, q) : abs \in BOOLEAN, q \in DirPaths}

\* the `dest` arguments handed to copy_file
DestPaths == {p \in ArgPaths : p.abs /\ Len(p.comps) <= 1}

\* Path::parent(): None for "/" and for ""
HasParent(p) == p.comps # << >>

\* A parent() that is always the root.
ParentIsRoot(p) == [p EXCEPT !.comps = << >>]

Parent(p) == [p EXCEPT !.comps = SubSeq(@, 1, Len(@) - 1)]

\* PathBuf::from("/").join(path)   (gdrive.rs 398)
JoinRoot(p) == ArgPath(TRUE, p.comps)

\* self.dirs.get(&path).is_some(): the keys of dirs are absolute paths
Known(d, p) == p.abs /\ Has(d, p.comps)

\* the identifier the remote gave a directory that existed before the session
PathId(q) ==
    IF q = << >> THEN RootId
    ELSE IF Len(q) = 1 THEN NameRank[q[1]]
    ELSE 2 * NameRank[q[1]] + NameRank[q[2]]

\* the indexes GDriveRepo::new can have built: the root and a tree below it
InitialIndexes ==
    {[q \in S |-> PathId(q)] :
        S \in {T \in SUBSET DirPaths :
                 /\ << >> \in T
                 /\ \A q \in T : q # << >> => SubSeq(q, 1, Len(q) - 1) \in T}}

\* what a path under LocalRepo.path is
Kinds == {"none", "dir", "file", "other"}

\* the local trees: the root is a directory, things exist inside directories
LocalTrees ==
    {f \in [DirPaths -> Kinds] :
        /\ f[<< >>] = "dir"
        /\ \A q \in DirPaths :
              (q # << >> /\ f[q] # "none") => f[SubSeq(q, 1, Len(q) - 1)] = "dir"}

\* an empty directory at LocalRepo.path
MinimalFs == [q \in DirPaths |-> IF q = << >> THEN "dir" ELSE "none"]

\* the objects a remote directory can hold: files and folders, and
\* documents, which are no folders and carry no sha256Checksum
RemoteListings ==
    UNION {{[i \in 1..n |-> [id |-> i, kind |-> f[i]]] :
               f \in [1..n -> {"file", "doc"}]} : n \in 0..MaxEntries}

\* what RequestBuilder::call hands back (gdrive.rs 152-186): the parsed body
\* of a 2xx response; an Err; or Ok of the all-default value that the body of
\* an error status other than 401 deserialises to (lines 182-183)
CallOutcomes == {"ok", "err", "default"}

\* the Repo methods a task of each mode calls
OpsOf(mode) ==
    IF mode = "remote" THEN {"list", "create_dir", "copy_file"}
    ELSE IF mode = "local" THEN {"local_list", "local_create_dir"}
    ELSE {"create_dir"}

\* the call returns res to the task
Done(tk, res) ==
    [tk EXCEPT !.pc = "done", !.result = res, !.stack = << >>]

\* the locals of a call of op that begins now
Start(tk, op, p, d) ==
    [FreshTask(tk.mode) EXCEPT
        !.callNo = IF tk.callNo = "none" THEN "first" ELSE "second",
        !.op = op, !.path = p, !.dest = d,
        !.pc = IF op = "create_dir" THEN "check" ELSE op,
        !.stack = IF op = "create_dir" THEN <<p>> ELSE << >>,
        !.dirs0 = dirs, !.fs0 = localFs,
        !.last = [op |-> tk.op, path |-> tk.path, result |-> tk.result,
                  nreq |-> tk.nreq]]

\* a task calls a Repo method, and once more with the same arguments when
\* the call has returned; the tasks that run side by side call once, each
\* with the path it was given; a panic ended the task
RepoBegin(t) ==
    /\ task[t].mode # "off"
    /\ task[t].pc \in {"idle", "done"}
    /\ task[t].result # "Panic"
    /\ \/ task[t].callNo = "none"
       \/ task[t].callNo = "first" /\ task[t].mode # "create"
    /\ \E op \in OpsOf(task[t].mode) : \E p \in ArgPaths : \E d \in DestPaths :
         /\ task[t].mode = "local" => ~p.abs
         /\ task[t].mode = "create" => p = task[t].path
         /\ op # "copy_file" => d = ArgPath(TRUE, << >>)
         /\ task[t].callNo = "first" =>
               op = task[t].op /\ p = task[t].path /\ d = task[t].dest
         /\ task' = [task EXCEPT ![t] = Start(task[t], op, p, d)]
    /\ UNCHANGED << created, copied, nextId, localFs >>
    /\ UNCHANGED << syncVars, authVars, indexVars >>

\* A test that knows only the root.
CreateDirKnownRootOnly(d, q) == q.abs /\ q.comps = << >>

\* if let Some(_) = self.dirs.get(&path)   (gdrive.rs 450)
CreateDirKnown(d, q) == Known(d, q)

\* return Ok(()) of the innermost create_dir frame: the frame around it goes
\* on behind its future.await? (gdrive.rs 454-456)
Pop(tk) ==
    IF Len(tk.stack) = 1
    THEN Done(tk, "Ok")
    ELSE [tk EXCEPT !.stack = Tail(@), !.pc = "create", !.resp = "none"]

\* GDriveRepo::create_dir, lines 450-454: the test, and the recursive call
CreateDirCheck(t) ==
    /\ task[t].pc = "check"
    /\ LET tk == task[t]
           q == Head(tk.stack)
       IN  task' = [task EXCEPT ![t] =
              IF CreateDirKnown(dirs, q) THEN Pop(tk)
              ELSE IF ~HasParent(q) THEN Done(tk, "Panic")
              ELSE [tk EXCEPT !.stack = <<Parent(q)>> \o @]]
    /\ UNCHANGED << created, copied, nextId, localFs >>
    /\ UNCHANGED << syncVars, authVars, indexVars >>

\* GDriveRepo::create_dir, lines 456-471: the parent's id is looked up and
\* files_create is sent; the remote makes the folder, or fails, and its
\* answer may be lost on the way back
CreateDirSend(t) ==
    /\ task[t].pc = "create"
    /\ LET tk == task[t]
           q == Head(tk.stack)
       IN  IF ~Known(dirs, Parent(q))
           THEN /\ task' = [task EXCEPT ![t] = Done(tk, "Panic")]
                /\ UNCHANGED << created, nextId >>
           ELSE \E o \in CallOutcomes : \E made \in BOOLEAN :
                /\ o = "ok" => made
                /\ o = "default" => ~made
                /\ IF made
                   THEN /\ created' = Append(created,
                               [path |-> q.comps, parent |-> dirs[Parent(q).comps],
                                id |-> nextId, task |-> t])
                        /\ nextId' = nextId + 1
                   ELSE UNCHANGED << created, nextId >>
                /\ task' = [task EXCEPT ![t] =
                      [tk EXCEPT !.pc = "insert", !.resp = o, !.newId = nextId,
                                 !.nreq = @ + 1]]
    /\ UNCHANGED << copied, localFs >>
    /\ UNCHANGED << syncVars, authVars, indexVars >>

\* GDriveRepo::create_dir, lines 471-477: the answer arrives, file.id is
\* unwrapped and the path is inserted
CreateDirInsert(t) ==
    /\ task[t].pc = "insert"
    /\ LET tk == task[t]
           q == Head(tk.stack)
       IN  CASE tk.resp = "ok" ->
                  /\ dirs' = Insert(dirs, q.comps, tk.newId)
                  /\ task' = [task EXCEPT ![t] = Pop(tk)]
             [] tk.resp = "err" ->
                  /\ dirs' = dirs
                  /\ task' = [task EXCEPT ![t] = Done(tk, "Err")]
             [] OTHER ->
                  /\ dirs' = dirs
                  /\ task' = [task EXCEPT ![t] = Done(tk, "Panic")]
    /\ UNCHANGED << remote, new_pc, folders, fpos, children, parents, names,
                    paths, pending >>
    /\ UNCHANGED << created, copied, nextId, localFs >>
    /\ UNCHANGED << syncVars, authVars >>

\* A lookup that finds every path.
ListMissingNever(d, p) == FALSE

\* self.dirs.get(&path) is None for the joined path   (gdrive.rs 398-400)
ListMissing(d, p) == ~Known(d, JoinRoot(p))

\* GDriveRepo::list, lines 397-402
ListStart(t) ==
    /\ task[t].pc = "list"
    /\ LET tk == task[t] IN
       IF ListMissing(dirs, tk.path)
       THEN task' = [task EXCEPT ![t] = Done(tk, "Err")]
       ELSE \E l \in RemoteListings :
               task' = [task EXCEPT ![t] = [tk EXCEPT !.pc = "page", !.full = l]]
    /\ UNCHANGED << created, copied, nextId, localFs >>
    /\ UNCHANGED << syncVars, authVars, indexVars >>

\* the lengths of the page the remote serves when rem objects are left
PageLengths(rem) ==
    IF rem = 0 THEN {0}
    ELSE 1..(IF rem < PageSize THEN rem ELSE PageSize)

\* GDriveRepo::list, lines 427-446: the files become entries; a file
\* without sha256_checksum fails the unwrap
ListReturn(tk) ==
    IF \E i \in DOMAIN tk.files : tk.files[i].kind = "doc"
    THEN Done(tk, "Panic")
    ELSE Done(tk, "Ok")

\* GDriveRepo::list, one turn of the loop (lines 404-425): the request with
\* the cursor, the page, the append, the test of the new cursor
ListPage(t) ==
    /\ task[t].pc = "page"
    /\ \E o \in CallOutcomes :
         LET tk == [task[t] EXCEPT !.nreq = @ + 1] IN
         CASE o = "err" ->
                task' = [task EXCEPT ![t] =
                   Done([tk EXCEPT !.failed = TRUE], "Err")]
           [] o = "default" ->
                task' = [task EXCEPT ![t] =
                   ListReturn([tk EXCEPT !.failed = TRUE, !.page_token = 0])]
           [] OTHER ->
                \E k \in PageLengths(Len(tk.full) - tk.page_token) :
                   LET c == tk.page_token
                       next == IF c + k < Len(tk.full) THEN c + k ELSE 0
                       tk2 == [tk EXCEPT !.page_token = next,
                                         !.files = @ \o SubSeq(tk.full, c + 1, c + k)]
                   IN  task' = [task EXCEPT ![t] =
                          IF next = 0 THEN ListReturn(tk2) ELSE tk2]
    /\ UNCHANGED << created, copied, nextId, localFs >>
    /\ UNCHANGED << syncVars, authVars, indexVars >>

\* GDriveRepo::copy_file, lines 490-502: the parents are unwrapped and the
\* lookup by name is sent; it finds an object or none
CopyLookup(t) ==
    /\ task[t].pc = "copy_file"
    /\ LET tk == task[t] IN
       IF \/ ~HasParent(tk.path) \/ ~HasParent(tk.dest)
          \/ ~Known(dirs, Parent(tk.path)) \/ ~Known(dirs, Parent(tk.dest))
       THEN task' = [task EXCEPT ![t] = Done(tk, "Panic")]
       ELSE \E o \in CallOutcomes : \E n \in 0..1 :
               /\ o # "ok" => n = 0
               /\ task' = [task EXCEPT ![t] =
                     [tk EXCEPT !.pc = "lookup", !.resp = o, !.found = n,
                                !.nreq = @ + 1]]
    /\ UNCHANGED << created, copied, nextId, localFs >>
    /\ UNCHANGED << syncVars, authVars, indexVars >>

\* GDriveRepo::copy_file, lines 502-518: the lookup's answer, remove(0),
\* and the files_copy request
CopyCopy(t) ==
    /\ task[t].pc = "lookup"
    /\ LET tk == task[t] IN
       IF tk.resp = "err"
       THEN /\ task' = [task EXCEPT ![t] = Done(tk, "Err")]
            /\ copied' = copied
       ELSE IF tk.found = 0
       THEN /\ task' = [task EXCEPT ![t] = Done(tk, "Panic")]
            /\ copied' = copied
       ELSE /\ copied' = Append(copied, [from |-> tk.path, to |-> tk.dest, task |-> t])
            /\ \E o \in CallOutcomes :
                  task' = [task EXCEPT ![t] =
                     Done([tk EXCEPT !.nreq = @ + 1],
                          IF o = "err" THEN "Err" ELSE "Ok")]
    /\ UNCHANGED << created, nextId, localFs >>
    /\ UNCHANGED << syncVars, authVars, indexVars >>

\* std::fs::read_dir(path)? fails   (repo.rs 64-65)
ReadDirFails(fs, q) == fs[q] # "dir"

\* the entries of directory q
Children(fs, q) ==
    {c \in DirPaths : /\ Len(c) = Len(q) + 1
                      /\ SubSeq(c, 1, Len(q)) = q
                      /\ fs[c] # "none"}

\* LocalRepo::list (repo.rs 63-87); reading an entry may fail
LocalList(t) ==
    /\ task[t].pc = "local_list"
    /\ LET tk == task[t] IN
       IF ReadDirFails(localFs, tk.path.comps)
       THEN task' = [task EXCEPT ![t] = Done(tk, "Err")]
       ELSE \E io \in BOOLEAN :
               task' = [task EXCEPT ![t] =
                  IF ~io THEN Done(tk, "Err")
                  ELSE IF \E c \in Children(localFs, tk.path.comps) :
                             localFs[c] = "other"
                       THEN Done(tk, "Panic")
                       ELSE Done(tk, "Ok")]
    /\ UNCHANGED << created, copied, nextId, localFs >>
    /\ UNCHANGED << syncVars, authVars, indexVars >>

\* q and the directories above it
Prefixes(q) == {SubSeq(q, 1, i) : i \in 0..Len(q)}

\* LocalRepo::create_dir (repo.rs 89-93): std::fs::create_dir_all
LocalCreateDir(t) ==
    /\ task[t].pc = "local_create_dir"
    /\ LET tk == task[t]
           q == tk.path.comps
       IN  IF localFs[q] = "dir"
           THEN /\ task' = [task EXCEPT ![t] = Done(tk, "Ok")]
                /\ localFs' = localFs
           ELSE IF \E x \in Prefixes(q) : localFs[x] \in {"file", "other"}
           THEN /\ task' = [task EXCEPT ![t] = Done(tk, "Err")]
                /\ localFs' = localFs
           ELSE \E ok \in BOOLEAN :
                  IF ok
                  THEN /\ localFs' = [x \in DirPaths |->
                             IF x \in Prefixes(q) THEN "dir" ELSE localFs[x]]
                       /\ task' = [task EXCEPT ![t] = Done(tk, "Ok")]
                  ELSE /\ localFs' = localFs
                       /\ task' = [task EXCEPT ![t] = Done(tk, "Err")]
    /\ UNCHANGED << created, copied, nextId >>
    /\ UNCHANGED << syncVars, authVars, indexVars >>

\* GDriveRepo::new has run and is not run again
IndexBuilt ==
    /\ remote = << >>
    /\ new_pc = "off"
    /\ folders = << >>
    /\ fpos = 1
    /\ children = << >>
    /\ parents = << >>
    /\ names = << >>
    /\ paths = << >>
    /\ pending = << >>

\* One task calls a Repo method twice in a row, on either backend.
RepoInit ==
    /\ SyncIdle
    /\ AuthIdle
    /\ IndexBuilt
    /\ \E mode \in {"remote", "local"} :
         /\ task = [t \in Tasks |-> IF t = "t1" THEN FreshTask(mode)
                                     ELSE FreshTask("off")]
         /\ IF mode = "remote"
            THEN dirs \in InitialIndexes /\ localFs = MinimalFs
            ELSE dirs = Insert(EmptyMap, << >>, RootId) /\ localFs \in LocalTrees
    /\ created = << >>
    /\ copied = << >>
    /\ nextId = Cardinality(DirPaths)

RepoNext ==
    \E t \in Tasks :
        \/ RepoBegin(t)
        \/ CreateDirCheck(t)
        \/ CreateDirSend(t)
        \/ CreateDirInsert(t)
        \/ ListStart(t)
        \/ ListPage(t)
        \/ CopyLookup(t)
        \/ CopyCopy(t)
        \/ LocalList(t)
        \/ LocalCreateDir(t)

SpecRepo == RepoInit /\ [][RepoNext]_vars

\* Every task calls create_dir with the same path, the calls interleave.
CreateDirInit ==
    /\ SyncIdle
    /\ AuthIdle
    /\ IndexBuilt
    /\ dirs \in InitialIndexes
    /\ localFs = MinimalFs
    /\ \E p \in ArgPaths :
          task = [t \in Tasks |-> [FreshTask("create") EXCEPT !.path = p]]
    /\ created = << >>
    /\ copied = << >>
    /\ nextId = Cardinality(DirPaths)

CreateDirNext ==
    \E t \in Tasks :
        \/ RepoBegin(t)
        \/ CreateDirCheck(t)
        \/ CreateDirSend(t)
        \/ CreateDirInsert(t)

SpecCreateDir == CreateDirInit /\ [][CreateDirNext]_vars

(***************************************************************************)
(* Properties of the sync engine (SpecSync)                                *)
(***************************************************************************)
Mutating == {"create_dir", "write_file", "copy_file", "delete"}

Transfers == {"write_file", "copy_file"}

\* a source file that the destination, as the run found it, lacks or holds
\* as a file of another hash
NeedsTransfer(e) ==
    /\ e.kind = "File"
    /\ \/ Lookup(dst0, e.name).kind = "none"
       \/ /\ Lookup(dst0, e.name).kind = "File"
          /\ Lookup(dst0, e.name).shasum # e.shasum

\* a source file whose name a directory occupies on the destination
TypeConflict(e) ==
    /\ e.kind = "File"
    /\ Lookup(dst0, e.name).kind = "Dir"

\* a source file the destination already holds with the same hash
SameHash(e) ==
    /\ e.kind = "File"
    /\ Lookup(dst0, e.name).kind = "File"
    /\ Lookup(dst0, e.name).shasum = e.shasum

SyncSucceeded == sync_pc = "done" /\ sync_result = "Ok"

\* C1: after a successful sync, every source file that was absent from the
\* destination, or present there as a file with another hash, is a file of
\* the destination with the source's hash.
C1_TransferredAfterSync ==
    SyncSucceeded =>
        \A e \in Range(srcTree) :
            NeedsTransfer(e) =>
                /\ Lookup(dstTree, e.name).kind = "File"
                /\ Lookup(dstTree, e.name).shasum = e.shasum

\* C2: a second consecutive run of sync invokes no create_dir, write_file,
\* copy_file or delete on the destination.
C2_SecondRunInvokesNothing ==
    runNo >= 2 => \A c \in Range(dstCalls) : c.op \notin Mutating

\* a second run has ended over a source file the destination still lacks
C2_Witness ==
    /\ runNo = 2
    /\ SyncSucceeded
    /\ \E e \in Range(srcTree) : NeedsTransfer(e)

\* C3: sync invokes no write_file or copy_file for a file that both sides
\* hold with equal content hash, whatever the two sizes are.
C3_EqualHashNeverTransferred ==
    \A c \in Range(dstCalls) :
        c.op \in Transfers =>
            ~ \E e \in Range(srcTree) : e.name = c.name /\ SameHash(e)

\* the loop has visited a file of equal hash and unequal size
C3_Witness ==
    /\ SyncSucceeded
    /\ \E e \in Range(srcTree) :
          SameHash(e) /\ Lookup(dst0, e.name).size # e.size

\* C9: sync invokes delete on neither backend, calls nothing but list on the
\* source, and leaves every destination entry whose name the source listing
\* lacks as it was.
C9_NonDestructive ==
    /\ \A c \in Range(srcCalls) : c.op = "list"
    /\ \A c \in Range(dstCalls) : c.op # "delete"
    /\ \A d \in Range(dst0) :
          (\A e \in Range(srcTree) : e.name # d.name) => d \in Range(dstTree)

\* a run ended over a destination that has an entry the source lacks and an
\* entry the source has too
C9_Witness ==
    /\ SyncSucceeded
    /\ \E d \in Range(dst0) : \A e \in Range(srcTree) : e.name # d.name
    /\ \E d \in Range(dst0) : \E e \in Range(srcTree) : e.name = d.name

\* C10: when a directory of the destination occupies the name of a source
\* file, the run does not end as a success, and nothing is written or deleted
\* at that name.
C10_TypeConflictIsAnError ==
    sync_pc = "done" =>
        \A e \in Range(srcTree) :
            TypeConflict(e) =>
                /\ sync_result = "Err"
                /\ \A c \in Range(dstCalls) :
                      c.name = e.name => c.op \notin Mutating

\* C18: a sync that succeeded has created every source directory the
\* destination lacked and has listed every source directory.
C18_DirsCreatedAndWalked ==
    SyncSucceeded =>
        \A e \in Range(srcTree) :
            e.kind = "Dir" =>
                /\ Lookup(dst0, e.name).kind = "none" =>
                      \E c \in Range(dstCalls) :
                          c.op = "create_dir" /\ c.name = e.name
                /\ \E c \in Range(srcCalls) : c.op = "list" /\ c.name = e.name

\* sync has returned the failure and has invoked nothing that mutates
AbortedUnchanged ==
    /\ sync_pc' = "done"
    /\ sync_result' = "Err"
    /\ dstTree' = dstTree
    /\ \A c \in Range(srcCalls') \cup Range(dstCalls') : c.op \notin Mutating

\* C27: a listing of the source either hands sync the source's entries or
\* ends sync with the failure, and so does a listing of the destination; a
\* sync that ends with a failure has invoked no mutating operation.
C27_ListFailureAborts ==
    [][/\ (sync_pc = "list_src" /\ sync_pc' # sync_pc) =>
             \/ sync_pc' = "list_dst" /\ srcs' = srcTree
             \/ AbortedUnchanged
       /\ (sync_pc = "list_dst" /\ sync_pc' # sync_pc) =>
             \/ sync_pc' = "loop" /\ dsts' = IndexByName(dstTree)
             \/ AbortedUnchanged]_vars

\* the source was listed, the listing of the destination failed, and sync
\* has returned the failure
C27_Witness ==
    /\ sync_pc = "done"
    /\ sync_result = "Err"
    /\ srcs = srcTree
    /\ srcTree # << >>
    /\ Len(srcCalls) = 1
    /\ Len(dstCalls) = 1

(***************************************************************************)
(* Properties of the call executor (SpecCall)                              *)
(***************************************************************************)
\* C4: a logical call whose first response is 401 and whose retry, sent
\* after the forced refresh succeeded, is answered 200 returns Ok.
C4_RetrySuccessIsReturned ==
    \A p \in Callers :
        caller[p].resps = << StatusUnauthorized, StatusOK >> =>
            caller[p].result = "Ok"

\* C5: a logical call sends at most two requests, and one answered 401 twice
\* has ended in an error after exactly two requests.
C5_AtMostTwoRequests ==
    \A p \in Callers :
        /\ Len(caller[p].sent) <= 2
        /\ caller[p].resps = << StatusUnauthorized, StatusUnauthorized >> =>
              /\ caller[p].pc = "done"
              /\ caller[p].result = "Err"
              /\ Len(caller[p].sent) = 2

\* a call has been answered 401 twice
C5_Witness ==
    \E p \in Callers :
        caller[p].resps = << StatusUnauthorized, StatusUnauthorized >>

\* C6, as claimed: a logical call issues at most one refresh network call,
\* those of token() counted, and at most one retry.
C6_AtMostOneRefresh ==
    \A p \in Callers :
        /\ caller[p].nrefresh <= 1
        /\ Len(caller[p].sent) <= 2

\* C6, amended: a logical call forces at most one refresh from its 401 arm
\* and retries at most once; with the refreshes token() makes on an expired
\* credential it issues at most three refresh network calls.
C6_RefreshesBounded ==
    \A p \in Callers :
        /\ caller[p].nforced <= 1
        /\ Len(caller[p].sent) <= 2
        /\ caller[p].nrefresh <= 3

\* a call that refreshed on expiry, on the 401 and on expiry again
C6_Witness ==
    \E p \in Callers :
        /\ caller[p].nrefresh = 3
        /\ caller[p].nforced = 1
        /\ Len(caller[p].sent) = 2

\* C15: a first response that is a non-401 error status or a transport
\* failure ends the call in an error, after one request and with no refresh
\* forced.
C15_OtherErrorsPropagate ==
    \A p \in Callers :
        (Len(caller[p].resps) >= 1 /\ caller[p].resps[1] \in {StatusServerError, "io"})
        => /\ caller[p].pc = "done"
           /\ caller[p].result = "Err"
           /\ Len(caller[p].sent) = 1
           /\ caller[p].nforced = 0

\* C17: a call after the first whose token() found the credential expired,
\* and whose one request the server answered 200, has refreshed once, sent
\* the refreshed secret and returned Ok.
C17_ExpiryBetweenCallsIsRecovered ==
    \A p \in Callers :
        (/\ caller[p].callNo >= 2
         /\ caller[p].sawAt >= 0
         /\ caller[p].resps = << StatusOK >>)
        => /\ caller[p].result = "Ok"
           /\ caller[p].nrefresh = 1
           /\ caller[p].sent = << <<caller[p].name, issued>> >>
           /\ store[caller[p].name].access_token = <<caller[p].name, issued>>

\* the second call refreshed, the first one did not, and the second got 200
C17_Witness ==
    \E p \in Callers :
        /\ caller[p].callNo = 2
        /\ caller[p].sawAt >= 0
        /\ caller[p].resps = << StatusOK >>
        /\ refreshCalls = 1

\* the caller's refresh network call has come back with a new secret
RefreshSucceeds(p) ==
    /\ caller[p].pc = "refresh"
    /\ caller'[p] # caller[p]
    /\ issued' = issued + 1

\* the caller's refresh network call has failed
RefreshFails(p) ==
    /\ caller[p].pc = "refresh"
    /\ caller'[p] # caller[p]
    /\ issued' = issued

\* C23: the step in which force_refresh succeeds puts the new secret and
\* the new expiry into the store, frees the lock it held, returns that same
\* secret and leaves the refresh secret and the scopes alone; and a token()
\* that follows, before that expiry, returns the secret issued last.
C23_RefreshPersistsAndReturns ==
    [][\A p \in Callers :
         LET n == caller[p].name IN
         /\ RefreshSucceeds(p) =>
               /\ lock[n] = p
               /\ lock'[n] = 0
               /\ store'[n].access_token = <<n, issued'>>
               /\ store'[n].access_until = now + TokenLifetime
               /\ store'[n].refresh_token = store[n].refresh_token
               /\ store'[n].scopes = store[n].scopes
               /\ caller'[p].token = <<n, issued'>>
         /\ (/\ caller[p].pc = "token"
             /\ caller'[p] # caller[p]
             /\ issued >= 1
             /\ now < store[n].access_until) =>
               /\ caller'[p].token = <<n, issued>>
               /\ caller'[p].pc # "lock"]_vars

\* the call after one that refreshed has got the refreshed secret from
\* token() without a refresh of its own
C23_Witness ==
    \E p \in Callers :
        /\ caller[p].callNo = 2
        /\ caller[p].pc = "send"
        /\ caller[p].nrefresh = 0
        /\ issued = 1
        /\ caller[p].token = <<caller[p].name, issued>>
        /\ store[caller[p].name].access_token = caller[p].token

\* C24: the step in which the refresh network call fails ends the logical
\* call with an error: no request is sent after it and force_refresh is not
\* entered again.
C24_RefreshFailureIsFatal ==
    [][\A p \in Callers :
         RefreshFails(p) =>
            /\ caller'[p].pc = "done"
            /\ caller'[p].result = "Err"
            /\ caller'[p].sent = caller[p].sent
            /\ caller'[p].nrefresh = caller[p].nrefresh
            /\ caller'[p].nforced = caller[p].nforced
            /\ refreshCalls' = refreshCalls]_vars

\* a call has failed in the refresh forced by a 401, after its one request
C24_Witness ==
    \E p \in Callers :
        /\ caller[p].pc = "done"
        /\ caller[p].result = "Err"
        /\ caller[p].resps = << StatusUnauthorized >>
        /\ Len(caller[p].sent) = 1
        /\ caller[p].nforced = 1
        /\ caller[p].nrefresh = 1
        /\ issued = 0

\* C29: the secret a caller holds when it goes to build a request is the one
\* token() has just taken from the store or from the refresh; the request in
\* flight carries it; and a retry carries a secret issued later than the one
\* that was rejected.
C29_RetryCarriesNewSecret ==
    /\ [](\A p \in Callers :
            /\ caller[p].pc = "await" =>
                  caller[p].sent[Len(caller[p].sent)] = caller[p].token
            /\ Len(caller[p].sent) >= 2 =>
                  /\ caller[p].sent[2] # caller[p].sent[1]
                  /\ caller[p].sent[2][2] > caller[p].sent[1][2])
    /\ [][\A p \in Callers :
            (caller[p].pc # "send" /\ caller'[p].pc = "send") =>
               caller'[p].token = store'[caller[p].name].access_token]_vars

\* after a 401 and a forced refresh the retry is in flight with a secret
\* other than the rejected one
C29_Witness ==
    \E p \in Callers :
        /\ caller[p].pc = "await"
        /\ caller[p].resps = << StatusUnauthorized >>
        /\ Len(caller[p].sent) = 2
        /\ caller[p].nforced = 1
        /\ caller[p].sent[1] = <<caller[p].name, 0>>
        /\ caller[p].sent[2] = <<caller[p].name, 1>>

(***************************************************************************)
(* Properties of the authorizer (SpecToken)                                *)
(***************************************************************************)
\* C7: when every caller of token() saw the credential expired before any
\* refresh was issued, and all have returned, one refresh network call was
\* issued in all and every caller holds the secret it produced.
C7_SingleFlightRefresh ==
    (\A p \in Callers :
        /\ caller[p].pc = "done"
        /\ caller[p].result = "Ok"
        /\ caller[p].sawAt = 0)
    => /\ refreshCalls = 1
       /\ \A p, q \in Callers : caller[p].token = caller[q].token

\* C16: a step of token() returns the stored secret, with no refresh call,
\* when now is strictly before the stored expiry, and enters force_refresh
\* in every other case, now = expiry included.
C16_TokenReadsExpiry ==
    [][\A p \in Callers :
         (caller[p].pc = "token" /\ caller'[p] # caller[p]) =>
            IF now < store[caller[p].name].access_until
            THEN /\ caller'[p].token = store[caller[p].name].access_token
                 /\ caller'[p].pc = "done"
                 /\ caller'[p].result = "Ok"
                 /\ caller'[p].nrefresh = caller[p].nrefresh
                 /\ refreshCalls' = refreshCalls
            ELSE /\ caller'[p].pc = "lock"
                 /\ caller'[p].ret = "token"]_vars

\* token() has entered force_refresh at the very instant of the expiry
C16_Witness ==
    \E p \in Callers :
        /\ caller[p].pc = "lock"
        /\ caller[p].ret = "token"
        /\ now > 0
        /\ store[caller[p].name].access_until = now

\* C22: of the callers of one authorizer at most one has a refresh network
\* call in flight, and it holds the lock; a caller holds a copy of the store
\* only while it holds the lock; and the store is written only in a step of
\* the caller that holds the lock of the identity.
C22_RefreshUnderLock ==
    /\ [](\A p \in Callers :
            /\ caller[p].pc = "refresh" => lock[caller[p].name] = p
            /\ caller[p].drives # << >> => lock[caller[p].name] = p
            /\ \A q \in Callers \ {p} :
                  (caller[p].name = caller[q].name /\ caller[p].pc = "refresh")
                  => caller[q].pc # "refresh")
    /\ [][store' # store =>
            \E p \in Callers : /\ caller[p].pc = "refresh"
                               /\ lock[caller[p].name] = p
                               /\ caller'[p] # caller[p]]_vars

\* one caller's refresh is in flight while another waits for the lock
C22_Witness ==
    \E p \in Callers : \E q \in Callers \ {p} :
        /\ caller[p].name = caller[q].name
        /\ caller[p].pc = "refresh"
        /\ caller[q].pc = "lock"
        /\ lock[caller[p].name] = p

\* C30: the step in which the refresh network call fails leaves the store
\* as it was and frees the lock; the lock is never held by a caller that is
\* not inside force_refresh, so a caller that waits for it gets it.
C30_FailedRefreshReleasesLock ==
    /\ [][\A p \in Callers :
            RefreshFails(p) =>
               /\ store' = store
               /\ lock[caller[p].name] = p
               /\ lock'[caller[p].name] = 0]_vars
    /\ [](\A n \in Identities :
            lock[n] # 0 => caller[lock[n]].pc = "refresh" /\ caller[lock[n]].name = n)
    /\ [](\A p \in Callers :
            (caller[p].pc = "lock" /\ lock[caller[p].name] = 0)
            => ENABLED ForceRefreshLock(p))

\* after one caller's refresh failed, another caller of the same authorizer
\* has taken the lock and its refresh is in flight
C30_Witness ==
    \E p \in Callers : \E q \in Callers \ {p} :
        /\ caller[p].name = caller[q].name
        /\ caller[p].pc = "done"
        /\ caller[p].result = "Err"
        /\ caller[q].pc = "refresh"
        /\ lock[caller[q].name] = q
        /\ refreshCalls = 2
        /\ issued = 0

\* C28: the step in which a refresh for one identity succeeds leaves the
\* record of every other identity as it was, and removes no identity.
C28_RefreshTouchesOwnRecordOnly ==
    [][\A p \in Callers :
         RefreshSucceeds(p) =>
            /\ DOMAIN store' = DOMAIN store
            /\ \A m \in Identities \ {caller[p].name} : store'[m] = store[m]]_vars

(***************************************************************************)
(* Properties of the path index (SpecIndex)                                *)
(***************************************************************************)
\* the object that k parent links above id, or OrphanId when a link is missing
RECURSIVE Ancestor(_, _, _)
Ancestor(fs, id, k) ==
    IF k = 0 \/ id = RootId \/ id \notin DOMAIN fs THEN id
    ELSE Ancestor(fs, fs[id].parent, k - 1)

\* the folders whose parent links lead to the root
Reachable(fs) == {i \in DOMAIN fs : Ancestor(fs, i, Len(fs)) = RootId}

\* the parent links of the listing form a tree rooted at the root
IsTree(fs) == Reachable(fs) = DOMAIN fs

\* C8: built from a listing whose parent links form a tree rooted at the
\* root, the index holds every directory under exactly one path, and as many
\* entries as there are directories, plus the root.
C8_IndexComplete ==
    (new_pc = "done" /\ IsTree(folders)) =>
        /\ \A i \in Reachable(folders) :
              Cardinality({q \in DOMAIN dirs : dirs[q] = i}) = 1
        /\ Cardinality(DOMAIN dirs) = Cardinality(Reachable(folders)) + 1

\* C20: the index is built from every folder object of the remote, also when
\* the listing spans several pages: each one is entered into the maps.
C20_AllPagesFetched ==
    new_pc \in {"walk", "done"} =>
        \A i \in DOMAIN remote :
            /\ remote[i].id \in DOMAIN names
            /\ remote[i].id \in DOMAIN parents

\* what bounds the steps GDriveRepo::new can still take: the fetch, a turn
\* of for_each per folder, and add_child calls, each of which either gives a
\* folder its path or returns at once
NewStepsLeft ==
    LET n == Len(folders)
        N == Len(remote)
    IN  IF new_pc = "fetch" THEN 4 + N * (N + 1) + 2 * N
        ELSE IF new_pc = "maps" THEN 2 + n * (n + 1) + n + (n + 1 - fpos)
        ELSE IF new_pc = "walk"
             THEN 1 + (n + 1 - Cardinality(DOMAIN paths)) * (n + 1) + Len(pending)
        ELSE 0

\* C26 (state part): the walk gives a path only to the root and to folders
\* whose parent links lead to the root, and the index holds no other
\* identifier: a folder with a missing parent, a folder on a parent cycle and
\* everything below them are left out; while new has not returned it can
\* take a step.
C26_OnlyReachableIndexed ==
    /\ new_pc \in {"walk", "done"} =>
          \A id \in DOMAIN paths : id = RootId \/ id \in Reachable(folders)
    /\ new_pc = "done" =>
          /\ \A q \in DOMAIN dirs :
                dirs[q] = RootId \/ dirs[q] \in Reachable(folders)
          /\ \A i \in DOMAIN folders :
                i \notin Reachable(folders) => \A q \in DOMAIN dirs : dirs[q] # i
    /\ new_pc \in {"fetch", "maps", "walk"} => ENABLED IndexNext

Missing(d, p) == {x \in Prefixes(p.comps) : ~Has(d, x)}

\* the files_create requests the remote carried out for path x
CreatedAt(x) == {i \in DOMAIN created : created[i].path = x}

C12_ListAggregatesAllPages ==
    \A t \in Tasks :
        (task[t].op = "list" /\ task[t].pc = "done") =>
            /\ task[t].result = "Ok" => task[t].files = task[t].full
            /\ task[t].failed => task[t].result = "Err"

\* C13: list on a path that is no directory returns an error: the remote
\* list whose joined path is no key of the index sends no request, the local
\* list fails on an absent path and on one that is no directory.
C13_ListOfMissingDirFails ==
    \A t \in Tasks :
        LET tk == task[t] IN
        /\ (tk.op = "list" /\ ~Known(tk.dirs0, JoinRoot(tk.path))) =>
              /\ tk.nreq = 0
              /\ tk.pc \in {"list", "done"}
              /\ tk.pc = "done" => tk.result = "Err"
        /\ (tk.op = "local_list" /\ tk.fs0[tk.path.comps] # "dir") =>
              /\ tk.pc \in {"local_list", "done"}
              /\ tk.pc = "done" => tk.result = "Err"

\* a remote list of a relative path that is not in the index has failed
C13_Witness ==
    \E t \in Tasks :
        /\ task[t].op = "list"
        /\ task[t].pc = "done"
        /\ task[t].result = "Err"
        /\ task[t].nreq = 0
        /\ ~task[t].path.abs
        /\ ~Has(dirs, task[t].path.comps)

\* C14: a remote copy_file whose lookup by name was answered with no object
\* returns an error and has sent nothing but the lookup.
C14_CopyOfMissingSourceIsNotFound ==
    \A t \in Tasks :
        (/\ task[t].op = "copy_file"
         /\ task[t].pc = "done"
         /\ task[t].resp = "ok"
         /\ task[t].found = 0)
        => /\ task[t].result = "Err"
           /\ task[t].nreq = 1

\* C19: when two create_dir calls for one path, which the index lacked when
\* either began, have both returned Ok, the remote has carried out at most
\* one creation request for that path.
C19_ConcurrentCreateDirCreatesOnce ==
    \A t1 \in Tasks : \A t2 \in Tasks \ {t1} :
        (/\ task[t1].op = "create_dir" /\ task[t2].op = "create_dir"
         /\ task[t1].path = task[t2].path
         /\ ~Known(task[t1].dirs0, task[t1].path)
         /\ ~Known(task[t2].dirs0, task[t2].path)
         /\ task[t1].pc = "done" /\ task[t2].pc = "done"
         /\ task[t1].result = "Ok" /\ task[t2].result = "Ok")
        => Cardinality(CreatedAt(task[t1].path.comps)) <= 1

\* x is a proper ancestor of y
ProperPrefix(x, y) == Len(x) < Len(y) /\ SubSeq(y, 1, Len(x)) = x

\* what bounds the steps a create_dir call can still take: the descent to
\* the first indexed ancestor, then a request and an insert per open frame
StepsLeft(tk) ==
    IF tk.pc = "check"
    THEN 3 * (Len(Head(tk.stack).comps) + 1) + 2 * Len(tk.stack)
    ELSE IF tk.pc = "create" THEN 2 * Len(tk.stack)
    ELSE IF tk.pc = "insert" THEN 2 * Len(tk.stack) - 1
    ELSE 0

\* the create_dir call of t can take a step
CreateDirCanStep(t) ==
    ENABLED (CreateDirCheck(t) \/ CreateDirSend(t) \/ CreateDirInsert(t))

\* C21 (state part): during a first create_dir call for an absolute path the
\* remote has made the directories in root-to-leaf order, each under the
\* identifier the index holds for its parent; a call that has not returned
\* can take a step; and when it returns Ok the path and all its ancestors
\* are keys of the index.
C21_ChainState ==
    \A t \in Tasks :
        LET tk == task[t] IN
        (tk.op = "create_dir" /\ tk.callNo = "first" /\ tk.path.abs /\ tk.mode = "remote") =>
            /\ \A i \in DOMAIN created : \A j \in DOMAIN created :
                  i < j => ProperPrefix(created[i].path, created[j].path)
            /\ \A i \in DOMAIN created :
                  LET par == SubSeq(created[i].path, 1, Len(created[i].path) - 1)
                  IN  /\ ProperPrefix(created[i].path, tk.path.comps)
                         \/ created[i].path = tk.path.comps
                      /\ Has(dirs, par)
                      /\ created[i].parent = dirs[par]
                      /\ ~Has(tk.dirs0, created[i].path)
            /\ tk.pc # "done" => CreateDirCanStep(t)
            /\ (tk.pc = "done" /\ tk.result = "Ok") =>
                  \A x \in Prefixes(tk.path.comps) : Has(dirs, x)

====
